---- MODULE Spec2Model ----
(***************************************************************************)
(* The LNURL-pay confirmation screen, src/src/app/screens/LNURLPay.tsx.    *)
(* State: the component's four useState cells, the pending resolution of   *)
(* the lightning data of the hosting page, and one record per invocation   *)
(* of confirm() (its position, the values its closure captured and the     *)
(* effects it has produced on the environment).                            *)
(***************************************************************************)
EXTENDS Integers, Sequences, FiniteSets, TLC

VARIABLES details, origin, valueMSat, loading, resolver, calls, closed, userRejected

vars == <<details, origin, valueMSat, loading, resolver, calls, closed, userRejected>>

\* ------------------------------------------------------------------ bounds
\* largest minSendable / maxSendable of a pay request, in satoshi
MaxSat == 1
\* number of confirm() invocations followed in one session
MaxConfirms == 2

\* ------------------------------------------------------------- data model
Invocations == 1..MaxConfirms

\* props.details / props.origin absent
undefined == [minSendable |-> -1, maxSendable |-> -1, metadata |-> "undefined"]

SendableValues == {s * 1000 : s \in 0..MaxSat}

\* the pay request parameters the screen can be given (lnurl.getDetails or props)
Props == {d \in [minSendable : SendableValues, maxSendable : SendableValues,
                 metadata : {"metadata"}] : d.minSendable <= d.maxSendable}

\* a JavaScript number holding an amount of millisatoshi, as a decimal with one
\* fractional digit: whole + tenths / 10
MSat(n) == [whole |-> n, tenths |-> 0]

\* useState<string | number>(details?.minSendable || 0)
InitialValueMSat(d) ==
  IF d = undefined THEN MSat(0)
  ELSE IF d.minSendable # 0 THEN MSat(d.minSendable) ELSE MSat(0)

\* what the satoshi number field can hand to onChange, as a decimal of
\* satoshi, sat + frac / 10000: min/max of a number input restrict the spinner,
\* not what is typed or pasted, and the field has no step that would reject a
\* fraction; the whole numbers from -1 (below every minSendable) to MaxSat + 1
\* (above every maxSendable), 0.5 and 0.0005
NumberInputValues ==
  {[sat |-> v, frac |-> 0] : v \in (-1)..(MaxSat + 1)}
    \cup {[sat |-> 0, frac |-> 5000], [sat |-> 0, frac |-> 5]}

\* e.target.value * 1000
Times1000(v) == [whole |-> v.sat * 1000 + v.frac \div 10, tenths |-> v.frac % 10]

\* what the millisatoshi range field can hand to onChange: a range input keeps
\* its value within [min, max] on the step grid based at min
RangeInputValues(d) ==
  {v \in d.minSendable..d.maxSendable : (v - d.minSendable) % 1000 = 0}

\* successAction.tag of a callback response; "absent" is no successAction
Tags == {"absent", "url", "message", "aes", "frobnicate"}

\* the digest of a metadata string (description hash commitment)
Digest(metadata) ==
  IF metadata = "metadata" THEN "h(metadata)" ELSE "h(other)"

\* what a payment request (pr) can be wrong in
Faults(pr, amount) ==
  {c \in {"decodable", "mtokens", "description_hash"} :
     \/ c = "decodable" /\ ~pr.decodable
     \/ c = "mtokens" /\ MSat(pr.mtokens) # amount
     \/ c = "description_hash" /\ pr.description_hash # "h(metadata)"}

\* the payment requests (pr) a callback can answer with: whether pr decodes,
\* the amount it encodes and the description hash it commits to; the faithful
\* one and those wrong in one respect
PaymentRequests(amount) ==
  {pr \in [decodable : BOOLEAN,
           mtokens : {IF m < 0 THEN 0 ELSE m :
                        m \in {amount.whole - 1000, amount.whole, amount.whole + 1}},
           description_hash : {"h(metadata)", "h(other)"}] :
     Cardinality(Faults(pr, amount)) <= 1}

\* the JSON bodies the payee's callback can answer with
PaymentInfos(amount) == [pr : PaymentRequests(amount), tag : Tags]

\* lnurl.verifyInvoice({paymentInfo, metadata, amount})
verifyInvoice(paymentInfo, metadata, amount) ==
  /\ paymentInfo.pr.decodable
  /\ MSat(paymentInfo.pr.mtokens) = amount
  /\ paymentInfo.pr.description_hash = Digest(metadata)

\* what utils.call("lnurlPay") can resolve with
Payments == {[payment_error |-> "", preimage |-> "preimage"],
             [payment_error |-> "no_route", preimage |-> ""]}

Effect(op, arg, ans) == [op |-> op, arg |-> arg, ans |-> ans]

\* a confirm() not started; amount is -1 while no request amount is held;
\* verifiedWith tells which amount the verification was given: the one of the
\* callback request ("requested") or another one ("other")
Idle == [pc |-> "idle", amount |-> MSat(-1), isValidInvoice |-> "none", tag |-> "absent",
         verifiedWith |-> "none", walletCalled |-> FALSE, outcome |-> "none",
         effects |-> <<>>]

\* a confirm() that has returned: its locals are gone, what it did remains
Finished(call, outcome, effects) ==
  [Idle EXCEPT !.pc = "done", !.walletCalled = call.walletCalled,
               !.verifiedWith = call.verifiedWith,
               !.outcome = outcome, !.effects = effects]

\* ------------------------------------------------------------------- Init
Init ==
  \E d \in Props \cup {undefined}, o \in {"undefined", "internal"} :
    /\ details = d
    /\ origin = o
    /\ valueMSat = InitialValueMSat(d)
    /\ loading = FALSE
    /\ resolver = IF d = undefined /\ o = "undefined" THEN "pending" ELSE "unused"
    /\ calls = [i \in Invocations |-> Idle]
    /\ closed = FALSE
    /\ userRejected = FALSE

\* ----------------------------------------------------- getLightningData
\* the hosting page yields lightning data and lnurl.getDetails resolves
GetLightningDataYields(d) ==
  /\ resolver = "pending"
  /\ ~closed
  /\ details' = d
  /\ origin' = "external"
  /\ resolver' = "done"
  /\ UNCHANGED <<valueMSat, loading, calls, closed, userRejected>>

\* data[0] is empty: nothing is set
GetLightningDataEmpty ==
  /\ resolver = "pending"
  /\ ~closed
  /\ resolver' = "done"
  /\ UNCHANGED <<details, origin, valueMSat, loading, calls, closed, userRejected>>

\* ------------------------------------------------------------- rendering
\* the placeholder presented only while both are missing
RenderedIfEitherPresent == (details # undefined \/ origin # "undefined") /\ ~closed

\* the amount screen (not the loading placeholder) is presented
Rendered == details # undefined /\ origin # "undefined" /\ ~closed

\* renderAmount() presents the two inputs
Editable == details.minSendable # details.maxSendable

\* onChange of the satoshi number field
NumberInputChange ==
  /\ Rendered
  /\ Editable
  /\ \E v \in NumberInputValues : valueMSat' = Times1000(v)
  /\ UNCHANGED <<details, origin, loading, resolver, calls, closed, userRejected>>

\* onChange of the millisatoshi range field
RangeInputChange ==
  /\ Rendered
  /\ Editable
  /\ \E v \in RangeInputValues(details) : valueMSat' = MSat(v)
  /\ UNCHANGED <<details, origin, loading, resolver, calls, closed, userRejected>>

\* ---------------------------------------------------------------- confirm
\* the Confirm button hands the click to confirm(); loading is passed to the
\* button as its spinner and confirm() does not read it
ConfirmEnabled(isLoading) == TRUE

\* the abort on an invalid invoice left out
AbortsPaymentNever(isValidInvoice) == FALSE

\* if (!isValidInvoice) { alert(...); return; }
AbortsPayment(isValidInvoice) == ~isValidInvoice

\* the payment_error test left out
RunsSuccessActionOnError(tag, payment) == tag # "absent"

\* if (successAction && !payment.payment_error)
RunsSuccessAction(tag, payment) == tag # "absent" /\ payment.payment_error = ""

\* the url opened whatever the answer
OpensUrlUnasked(answer) == TRUE

\* if (window.confirm(...)) window.open(successAction.url)
OpensUrl(answer) == answer

\* the switch with "aes" breaking out before the default alert
SuccessActionEffectsSilentAes(tag, answer) ==
  CASE tag = "url" ->
         <<Effect("alert", "description", FALSE),
           Effect("confirm", "description Do you want to open: url?", answer)>>
         \o (IF OpensUrl(answer) THEN <<Effect("open", "url", FALSE)>> ELSE <<>>)
    [] tag = "message" ->
         <<Effect("notify", "message", FALSE)>>
    [] tag = "aes" ->
         <<>>
    [] OTHER ->
         <<Effect("alert", "Not implemented yet: " \o tag, FALSE)>>

\* the switch with the break of case "message" missing
SuccessActionEffectsMessageFallsThrough(tag, answer) ==
  CASE tag = "url" ->
         <<Effect("alert", "description", FALSE),
           Effect("confirm", "description Do you want to open: url?", answer)>>
         \o (IF OpensUrl(answer) THEN <<Effect("open", "url", FALSE)>> ELSE <<>>)
    [] tag = "message" ->
         <<Effect("notify", "message", FALSE),
           Effect("alert", "Not implemented yet: " \o tag, FALSE)>>
    [] OTHER ->
         <<Effect("alert", "Not implemented yet: " \o tag, FALSE)>>

\* switch (successAction.tag)
SuccessActionEffects(tag, answer) ==
  CASE tag = "url" ->
         <<Effect("alert", "description", FALSE),
           Effect("confirm", "description Do you want to open: url?", answer)>>
         \o (IF OpensUrl(answer) THEN <<Effect("open", "url", FALSE)>> ELSE <<>>)
    [] tag = "message" ->
         <<Effect("notify", "message", FALSE)>>
    [] OTHER ->
         <<Effect("alert", "Not implemented yet: " \o tag, FALSE)>>

\* window.close() skipped when the success action is not supported, as if the
\* default case returned instead of breaking
ClosesWindowIfSupported(tag, payment) ==
  ~RunsSuccessAction(tag, payment) \/ tag \in {"url", "message"}

\* window.close() follows the success action on every path: each case of the
\* switch ends in break
ClosesWindow(tag, payment) == TRUE

\* the verification given the amount the state holds when the fetch resolves
VerifiedAmountOfState(captured, current) == current

\* amount: valueMSat of the verification reads the same binding of the render
\* confirm() was created in as amount: valueMSat of the request parameters
VerifiedAmount(captured, current) == captured

\* first part of confirm(): setLoading(true) and the callback request
ConfirmStart(i) ==
  /\ Rendered
  /\ ConfirmEnabled(loading)
  /\ calls[i].pc = "idle"
  /\ \A j \in Invocations : j < i => calls[j].pc # "idle"
  /\ loading' = TRUE
  /\ calls' = [calls EXCEPT ![i] = [Idle EXCEPT !.pc = "fetching", !.amount = valueMSat]]
  /\ UNCHANGED <<details, origin, valueMSat, resolver, closed, userRejected>>

\* axios.get rejects: catch, finally
FetchThrows(i) ==
  /\ ~closed
  /\ calls[i].pc = "fetching"
  /\ calls' = [calls EXCEPT ![i] =
       Finished(@, "fetchError", <<Effect("alert", "Error: message", FALSE)>>)]
  /\ loading' = FALSE
  /\ UNCHANGED <<details, origin, valueMSat, resolver, closed, userRejected>>

\* confirm() from the response of axios.get to its next suspension or return:
\* the verification, then either the abort (the record is Finished) or the
\* wallet call; valueMSat is not read after the verification
AfterFetch(call, paymentInfo) ==
  LET amount == VerifiedAmount(call.amount, valueMSat)
      isValidInvoice == verifyInvoice(paymentInfo, details.metadata, amount)
      checked == [Idle EXCEPT
                    !.isValidInvoice = IF isValidInvoice THEN "valid" ELSE "invalid",
                    !.tag = paymentInfo.tag,
                    !.verifiedWith =
                       IF amount = call.amount THEN "requested" ELSE "other"]
  IN IF AbortsPayment(isValidInvoice)
     THEN Finished(checked, "invalid",
            <<Effect("alert", "Payment aborted. Invalid invoice", FALSE)>>)
     ELSE [checked EXCEPT !.pc = "paying", !.walletCalled = TRUE]

\* axios.get resolves with any of the responses; the responses that leave
\* confirm() in the same place are one step; finally runs on the abort only
FetchReturns(i) ==
  /\ ~closed
  /\ calls[i].pc = "fetching"
  /\ \E after \in {AfterFetch(calls[i], paymentInfo) :
                      paymentInfo \in PaymentInfos(calls[i].amount)} :
       /\ calls' = [calls EXCEPT ![i] = after]
       /\ loading' = IF after.pc = "done" THEN FALSE ELSE loading
  /\ UNCHANGED <<details, origin, valueMSat, resolver, closed, userRejected>>

\* utils.call rejects: catch, finally
PayThrows(i) ==
  /\ ~closed
  /\ calls[i].pc = "paying"
  /\ calls' = [calls EXCEPT ![i] =
       Finished(@, "payThrow", <<Effect("alert", "Error: message", FALSE)>>)]
  /\ loading' = FALSE
  /\ UNCHANGED <<details, origin, valueMSat, resolver, closed, userRejected>>

\* utils.call resolves: success action, window.close(), finally
PayReturns(i) ==
  /\ ~closed
  /\ calls[i].pc = "paying"
  /\ \E payment \in Payments, answer \in BOOLEAN :
     /\ calls' = [calls EXCEPT ![i] =
          Finished(@, IF payment.payment_error = "" THEN "paid" ELSE "payError",
                   (IF RunsSuccessAction(calls[i].tag, payment)
                    THEN SuccessActionEffects(calls[i].tag, answer)
                    ELSE <<>>)
                   \o (IF ClosesWindow(calls[i].tag, payment)
                       THEN <<Effect("close", "window", FALSE)>>
                       ELSE <<>>))]
     /\ closed' = ClosesWindow(calls[i].tag, payment)
  /\ loading' = FALSE
  /\ UNCHANGED <<details, origin, valueMSat, resolver, userRejected>>

\* ----------------------------------------------------------------- reject
\* the Cancel link: msg.error("User rejected"); userRejected is whether the
\* invoking context has been sent that error
Reject ==
  /\ Rendered
  /\ userRejected' = TRUE
  /\ UNCHANGED <<details, origin, valueMSat, loading, resolver, calls, closed>>

\* the invoking context, told of the rejection, closes the presenting surface
InvokerClosesPrompt ==
  /\ userRejected
  /\ ~closed
  /\ closed' = TRUE
  /\ UNCHANGED <<details, origin, valueMSat, loading, resolver, calls, userRejected>>

\* ------------------------------------------------------------------- Next
Next ==
  \/ \E d \in Props : GetLightningDataYields(d)
  \/ GetLightningDataEmpty
  \/ NumberInputChange
  \/ RangeInputChange
  \/ \E i \in Invocations : ConfirmStart(i)
  \/ \E i \in Invocations : FetchThrows(i)
  \/ \E i \in Invocations : FetchReturns(i)
  \/ \E i \in Invocations : PayThrows(i)
  \/ \E i \in Invocations : PayReturns(i)
  \/ Reject
  \/ InvokerClosesPrompt

Spec == Init /\ [][Next]_vars

\* ----------------------------------------------------------- properties
\* a confirm() that has started and not yet returned
InFlight(i) == calls[i].pc \in {"fetching", "paying"}

\* a confirm() that ended in a failure
Failed(i) == calls[i].outcome \in {"fetchError", "invalid", "payThrow", "payError"}

FetchCount == Cardinality({i \in Invocations : calls[i].pc # "idle"})

WalletCalls == Cardinality({i \in Invocations : calls[i].walletCalled})

HasOp(call, op) == \E k \in DOMAIN call.effects : call.effects[k].op = op

\* an effect of the success-action switch (not an error alert, not the close)
IsSuccessActionEffect(e) ==
  \/ e.op \in {"confirm", "open", "notify"}
  \/ e.op = "alert" /\ e.arg \notin {"Error: message", "Payment aborted. Invalid invoice"}

HasSuccessActionEffect(call) ==
  \E k \in DOMAIN call.effects : IsSuccessActionEffect(call.effects[k])

\* C1: the wallet call of a confirm() is issued only after its own invoice
\* fetch returned and verifyInvoice found that response valid for the fetched
\* metadata and the requested amount; a confirm() whose fetch failed or whose
\* invoice was invalid has made no wallet call.
C1_PayOnlyAfterValidInvoice ==
  \A i \in Invocations :
    /\ calls[i].pc \in {"idle", "fetching"} => ~calls[i].walletCalled
    /\ calls[i].pc = "paying" =>
          /\ calls[i].walletCalled
          /\ calls[i].isValidInvoice = "valid"
    /\ calls[i].outcome \in {"fetchError", "invalid"} => ~calls[i].walletCalled

\* one confirm() was stopped by an invalid invoice, another reached the wallet
C1_Witness ==
  \E i, j \in Invocations :
    /\ calls[i].outcome = "invalid"
    /\ calls[j].pc = "paying"

\* C2: a confirm() invoked while an earlier one is still Submitting is a
\* no-op: it issues no invoice fetch, so at most one sequence is in flight.
C2_SecondConfirmIsNoOp ==
  /\ \A i, j \in Invocations : i < j /\ InFlight(i) => calls[j].pc = "idle"
  /\ Cardinality({i \in Invocations : InFlight(i)}) <= 1

\* C3: every invoice request carries an amount within
\* [minSendable, maxSendable].
C3_RequestAmountInBounds ==
  \A i \in Invocations :
    calls[i].pc = "fetching" =>
      /\ details.minSendable <= calls[i].amount.whole
      /\ \/ calls[i].amount.whole < details.maxSendable
         \/ calls[i].amount = MSat(details.maxSendable)

\* C4: when minSendable = maxSendable no edit of the amount is available and
\* every invoice request carries exactly that value.
C4_FixedAmountIsSent ==
  (details # undefined /\ details.minSendable = details.maxSendable) =>
    /\ ~ENABLED NumberInputChange
    /\ ~ENABLED RangeInputChange
    /\ \A i \in Invocations :
         calls[i].pc = "fetching" => calls[i].amount = MSat(details.minSendable)

\* C5: every failed confirm() has shown an error message, and has shown it
\* before any close of the presenting surface.
C5_FailureShowsMessage ==
  \A i \in Invocations :
    Failed(i) =>
      \E k \in DOMAIN calls[i].effects :
        /\ calls[i].effects[k].op = "alert"
        /\ \A m \in 1..(k - 1) : calls[i].effects[m].op # "close"

\* C6: every terminal outcome closes the presenting surface, exactly once:
\* a finished confirm() leaves the surface closed, a reported rejection leaves
\* it closed or about to be closed by the invoking context, and no more than
\* one close is performed.
C6_TerminalOutcomeCloses ==
  /\ \A i \in Invocations : calls[i].pc = "done" => closed
  /\ userRejected => (closed \/ ENABLED InvokerClosesPrompt)
  /\ Cardinality({i \in Invocations : HasOp(calls[i], "close")}) <= 1

\* C7: once a confirm() has failed, no step issues a further invoice fetch or
\* a further wallet call.
C7_NoRetryAfterFailure ==
  [][(\E i \in Invocations : Failed(i)) =>
       (FetchCount' = FetchCount /\ WalletCalls' = WalletCalls)]_vars

\* C8: success-action effects occur only in a confirm() whose wallet call has
\* returned without error; a confirm() whose wallet call threw or returned an
\* error, or which has not returned yet, has produced none.
C8_SuccessActionOnlyAfterPayment ==
  \A i \in Invocations :
    /\ HasSuccessActionEffect(calls[i]) =>
          calls[i].walletCalled /\ calls[i].outcome = "paid"
    /\ calls[i].pc # "done" => calls[i].effects = <<>>

\* one confirm() ran a success action after its payment, another had its
\* wallet call throw
C8_Witness ==
  \E i, j \in Invocations :
    /\ calls[i].outcome = "paid" /\ HasSuccessActionEffect(calls[i])
    /\ calls[j].outcome = "payThrow"

\* C9: a step opens the url only when it ends a successful payment whose
\* success action is tagged "url", right after the user affirmed the
\* confirmation request showing the description and the url.
C9_UrlOpenedOnlyIfAffirmed ==
  [][\A i \in Invocations :
       HasOp(calls'[i], "open") /\ ~HasOp(calls[i], "open") =>
         /\ calls[i].pc = "paying"
         /\ calls[i].tag = "url"
         /\ calls'[i].outcome = "paid"
         /\ \A k \in DOMAIN calls'[i].effects :
              calls'[i].effects[k].op = "open" =>
                /\ k > 1
                /\ calls'[i].effects[k - 1] =
                     Effect("confirm", "description Do you want to open: url?", TRUE)]_vars

\* the url has been opened
C9_Witness == \E i \in Invocations : HasOp(calls[i], "open")

\* C10: a step that ends a successful payment whose success action is tagged
\* neither "url" nor "message" alerts that this tag is not supported and then
\* closes, and does nothing else.
C10_UnsupportedTagIsReported ==
  [][\A i \in Invocations :
       (/\ calls[i].pc = "paying"
        /\ calls[i].tag \notin {"absent", "url", "message"}
        /\ calls'[i].outcome = "paid") =>
         calls'[i].effects =
           <<Effect("alert", "Not implemented yet: " \o calls[i].tag, FALSE),
             Effect("close", "window", FALSE)>>]_vars

\* a payment with an "aes" success action has completed
C10_Witness ==
  \E i \in Invocations :
    /\ calls[i].outcome = "paid"
    /\ calls[i].effects[1] = Effect("alert", "Not implemented yet: aes", FALSE)


\* C11: a confirm() whose wallet call succeeded has closed the presenting
\* surface as its last effect, once, after whatever its success action did;
\* a confirm() that ran a success action, supported or not, ended paid and
\* closed, never failed.
C11_PaidAlwaysCloses ==
  \A i \in Invocations :
    /\ calls[i].outcome = "paid" =>
          /\ closed
          /\ calls[i].effects # <<>>
          /\ \A k \in DOMAIN calls[i].effects :
               (calls[i].effects[k].op = "close") <=> (k = Len(calls[i].effects))
    /\ HasSuccessActionEffect(calls[i]) =>
          calls[i].outcome = "paid" /\ HasOp(calls[i], "close")

\* a payment with an unknown success action has completed and closed
C11_Witness ==
  \E i \in Invocations :
    /\ calls[i].outcome = "paid"
    /\ calls[i].effects[1] = Effect("alert", "Not implemented yet: frobnicate", FALSE)
    /\ closed

\* C12: a step that ends a successful payment whose success action is tagged
\* "message" emits one notification carrying the message and closes, with no
\* prompt and no url opened; no other step emits a notification.
C12_MessageNotifiesOnce ==
  [][\A i \in Invocations :
       /\ (/\ calls[i].pc = "paying"
           /\ calls[i].tag = "message"
           /\ calls'[i].outcome = "paid") =>
             /\ calls'[i].effects =
                  <<Effect("notify", "message", FALSE), Effect("close", "window", FALSE)>>
             /\ closed'
       /\ (HasOp(calls'[i], "notify") /\ ~HasOp(calls[i], "notify")) =>
             /\ calls[i].pc = "paying"
             /\ calls[i].tag = "message"
             /\ calls'[i].outcome = "paid"]_vars

\* a payment with a "message" success action has completed
C12_Witness ==
  \E i \in Invocations :
    /\ calls[i].outcome = "paid"
    /\ HasOp(calls[i], "notify")
    /\ closed

\* C13: once reject() has been called before any confirm(), the session makes
\* no invoice request (and so no wallet call).
C13_RejectFirstMakesNoRequest ==
  [][(userRejected /\ FetchCount = 0) => (FetchCount' = 0 /\ WalletCalls' = 0)]_vars

\* C14: reject() reports nothing while a confirm() is in flight, and no session
\* both reports the rejection and issues a wallet call.
C14_RejectOnlyWhenNotSubmitting ==
  [][/\ (\E i \in Invocations : InFlight(i)) => userRejected' = userRejected
     /\ ~(userRejected' /\ WalletCalls' > 0)]_vars

\* C15: after any sequence of edits to the satoshi field and the millisatoshi
\* field, the amount the two fields present (the satoshi field shows it
\* divided by 1000) is a whole number of millisatoshi.
C15_AmountIsWholeMillisatoshi ==
  Rendered => valueMSat.tenths = 0

\* C16: the verification of a confirm() is given the amount its callback
\* request carried, whatever the amount field holds by then, and an edit of
\* the amount changes nothing of any confirm().
C16_VerifiesRequestedAmount ==
  [][/\ \A i \in Invocations :
          (/\ calls[i].pc = "fetching"
           /\ calls'[i].pc # "fetching"
           /\ calls'[i].outcome # "fetchError") =>
            calls'[i].verifiedWith = "requested"
     /\ valueMSat' # valueMSat => calls' = calls]_vars

\* the amount has been edited while a confirm() is suspended at its fetch,
\* and another confirm() has had its invoice verified
C16_Witness ==
  \E i, j \in Invocations :
    /\ calls[i].pc = "fetching"
    /\ calls[i].amount # valueMSat
    /\ calls[j].verifiedWith = "requested"

\* C17: while the screen is presented, loading is true exactly when some
\* confirm() is in flight.
C17_LoadingIffInFlight ==
  ~closed => (loading <=> \E i \in Invocations : InFlight(i))

\* C18: while details or origin is missing neither confirm() nor reject() can
\* be invoked, so whenever an invoice request has been issued, a wallet call
\* made or a rejection reported, both details and origin are present.
C18_HandlersNeedDetailsAndOrigin ==
  /\ (details = undefined \/ origin = "undefined") =>
        /\ ~ENABLED Reject
        /\ \A i \in Invocations : ~ENABLED ConfirmStart(i)
  /\ (userRejected \/ \E i \in Invocations : calls[i].pc # "idle") =>
        (details # undefined /\ origin # "undefined")

\* details and origin came from the hosting page and a wallet call was made
C18_Witness ==
  /\ origin = "external"
  /\ \E i \in Invocations : calls[i].walletCalled

\* C19: in every session in which details or origin is missing, a resolution
\* from the hosting page has been started, so that the loading placeholder can
\* be left.
C19_ResolutionStartedWhenMissing ==
  (details = undefined \/ origin = "undefined") => resolver # "unused"
====
